---- MODULE Spec2Model ----
(***************************************************************************)
(* Model of the engine integration layer of mpue/stocklearn:               *)
(* backend/src/services/stockfish.service.ts, class StockfishEngine        *)
(* (the queue-based version, lines 65-469).                                *)
(*                                                                         *)
(* The class runs on the Node.js event loop, so every callback (a public   *)
(* call up to its first await, a stdout 'data' event, a timer, the         *)
(* process 'close' event) runs to completion and is one action here.       *)
(* The engine subprocess is the environment: it acknowledges the           *)
(* handshake, emits the terminal line of its oldest unfinished search, or  *)
(* terminates, at any time.                                                *)
(***************************************************************************)
EXTENDS Naturals, Integers, Sequences, FiniteSets, TLC

\* Bounds of the model (not program constants).
MaxItems == 3
MaxSpawns == 2
\* Items submitted under the fair specification, whose liveness checks cost more.
MaxFairItems == 2

Items == 1..MaxItems
Kinds == {"best", "eval", "top"}

VARIABLES
  stockfish,      \* this.stockfish: 0 = null, n > 0 = handle of the n-th spawned process
  ready,          \* this.ready
  queue,          \* this.queue: item ids, head first
  processing,     \* this.processing
  listeners,      \* dataHandlers registered on the current process's stdout, in registration order
  timers,         \* pending 10 s item timers, in arming order (equal delays fire in arming order)
  restartTimers,  \* number of pending 1 s restart timers
  outcome,        \* per item: how its promise stands
  kind,           \* per item: which public operation created it ("none" = not yet submitted)
  uciPending,     \* engine side: 'uci' written to the current process, 'uciok' not yet emitted
  acked,          \* engine side: the current process has emitted 'uciok'
  searches,       \* engine side: items whose 'go' was written to the current process and whose
                  \* terminal line it has not yet emitted, oldest first
  killed,         \* close() has sent the kill signal to the current process
  spawns,         \* number of spawn() calls so far
  submitted,      \* number of items submitted so far (item ids are submission order)
  dispatched,     \* history: one record per run of an item's command(), in order
  submitEpoch,    \* history: per item, value of spawns when it was submitted
  waitPos,        \* history: per item, length of the queue right after its push
  closeCalled,    \* history: close() was called while the supervisor was ready
  lastStep,       \* history: which callback ran in the last step
  elo,            \* getEngineConfig: the rating passed in
  config,         \* getEngineConfig: the configuration returned for elo
  options,        \* engine side: the option values of the current process
  go,             \* engine side: the last 'go' written, and by which operation
  call,           \* one call: its promise and the closure of its command()
  analysis        \* POST /api/games/:id/analyze: the locals of one run of the handler

\* The supervisor, its queue and the engine process.
engineVars == <<stockfish, ready, queue, processing, listeners, timers, restartTimers, outcome,
                kind, uciPending, acked, searches, killed, spawns, submitted, dispatched,
                submitEpoch, waitPos, closeCalled, lastStep>>

\* The variables of the specifications of single functions; they keep their
\* initial values in Spec and FairSpec.
functionVars == <<elo, config, options, go, call, analysis>>

vars == <<engineVars, functionVars>>

\* The fields the callbacks read and write, as one record.
Cur ==
  [stockfish |-> stockfish, ready |-> ready, queue |-> queue, processing |-> processing,
   listeners |-> listeners, timers |-> timers, restartTimers |-> restartTimers,
   outcome |-> outcome, kind |-> kind, uciPending |-> uciPending, acked |-> acked,
   searches |-> searches, killed |-> killed, spawns |-> spawns, dispatched |-> dispatched]

Commit(s) ==
  /\ stockfish' = s.stockfish
  /\ ready' = s.ready
  /\ queue' = s.queue
  /\ processing' = s.processing
  /\ listeners' = s.listeners
  /\ timers' = s.timers
  /\ restartTimers' = s.restartTimers
  /\ outcome' = s.outcome
  /\ kind' = s.kind
  /\ uciPending' = s.uciPending
  /\ acked' = s.acked
  /\ searches' = s.searches
  /\ killed' = s.killed
  /\ spawns' = s.spawns
  /\ dispatched' = s.dispatched

Range(q) == {q[n] : n \in DOMAIN q}

Remove(q, i) == SelectSeq(q, LAMBDA x : x # i)

\* A promise settles once: resolve/reject on a settled promise has no effect.
settle(s, i, o) ==
  IF s.outcome[i] = "pending" THEN [s EXCEPT !.outcome[i] = o] ELSE s

RECURSIVE processQueue(_)
RECURSIVE finishProcessing(_)
RECURSIVE command(_, _)

\* ensureEngine(): this.stockfish !== null && this.ready
ensureEngineNoReady(s) == s.stockfish # 0

ensureEngine(s) == s.stockfish # 0 /\ s.ready

\* queue.push(...)
pushFront(q, i) == <<i>> \o q

push(q, i) == Append(q, i)

\* processQueue, engine-not-ready branch: const item = queue.shift(); item.reject('not ready')
shiftOnly(s) == [s EXCEPT !.queue = Tail(s.queue)]

rejectNotReady(s) ==
  settle([s EXCEPT !.queue = Tail(s.queue)], Head(s.queue), "notReady")

processQueue(s) ==
  IF s.processing \/ s.queue = <<>> THEN s
  ELSE IF ~ensureEngine(s) THEN processQueue(rejectNotReady(s))
  ELSE command(Head(s.queue), [s EXCEPT !.processing = TRUE, !.queue = Tail(s.queue)])

finishProcessingOnly(s) == [s EXCEPT !.processing = FALSE]

finishProcessing(s) == processQueue([s EXCEPT !.processing = FALSE])

\* The command closure of an item: guard, setTimeout, stdout.on('data'), stdin.write(... go ...)
command(i, s) ==
  IF s.stockfish = 0
  THEN settle(finishProcessing(s), i, "notAvailable")
  ELSE [s EXCEPT !.timers = Append(@, i),
                 !.listeners = Append(@, i),
                 !.searches = Append(@, i),
                 !.dispatched = Append(@, [item |-> i, pid |-> s.stockfish, acked |-> s.acked])]

\* What the 10 s timer of an item of kind k settles its promise with.
timeoutOutcome(k) == IF k = "best" THEN "timeout" ELSE "neutral"

\* The setTimeout callback of item i.
onTimeoutNoFinish(i, s) ==
  settle([s EXCEPT !.timers = Remove(@, i), !.listeners = Remove(@, i)],
         i, timeoutOutcome(s.kind[i]))

onTimeoutNoSettle(i, s) ==
  finishProcessing([s EXCEPT !.timers = Remove(@, i), !.listeners = Remove(@, i)])

onTimeoutUnready(i, s) ==
  settle(finishProcessing([s EXCEPT !.timers = Remove(@, i), !.listeners = Remove(@, i),
                                    !.ready = FALSE]),
         i, timeoutOutcome(s.kind[i]))

onTimeout(i, s) ==
  settle(finishProcessing([s EXCEPT !.timers = Remove(@, i), !.listeners = Remove(@, i)]),
         i, timeoutOutcome(s.kind[i]))

\* What a terminal line settles an item of kind k with.
terminalOutcome(k, chunk) ==
  IF k = "best" /\ ~chunk.move THEN "noMove" ELSE "resolved"

\* The dataHandler of item i on a stdout chunk.
dataHandler(i, chunk, s) ==
  IF chunk.bestmove
  THEN settle(finishProcessing([s EXCEPT !.timers = Remove(@, i), !.listeners = Remove(@, i)]),
              i, terminalOutcome(s.kind[i], chunk))
  ELSE s

\* The stdout listener installed by startEngine.
uciListenerFinish(chunk, s) ==
  IF chunk.uciok THEN [s EXCEPT !.ready = TRUE]
  ELSE IF s.listeners = <<>> /\ s.dispatched # <<>>
  THEN [s EXCEPT !.outcome[s.dispatched[Len(s.dispatched)].item] = "resolved"]
  ELSE s

uciListener(chunk, s) == IF chunk.uciok THEN [s EXCEPT !.ready = TRUE] ELSE s

\* EventEmitter.emit('data'): the listeners registered when the chunk arrives are
\* called in registration order; the startEngine listener was registered first.
RECURSIVE deliver(_, _, _)
deliver(snapshot, chunk, s) ==
  IF snapshot = <<>> THEN s
  ELSE deliver(Tail(snapshot), chunk, dataHandler(Head(snapshot), chunk, s))

emitData(chunk, s) == deliver(s.listeners, chunk, uciListener(chunk, s))

\* startEngine(): spawn, ready = false, install listeners, write 'uci'
startEngine(s) ==
  [s EXCEPT !.stockfish = s.spawns + 1,
            !.spawns = s.spawns + 1,
            !.ready = FALSE,
            !.listeners = <<>>,
            !.searches = <<>>,
            !.uciPending = TRUE,
            !.acked = FALSE,
            !.killed = FALSE]

\* close handler, loop: while (queue.length > 0) { item = queue.shift(); item.reject('died') }
RECURSIVE flushQueue(_)
flushHeadOnly(s) ==
  IF s.queue = <<>> THEN s
  ELSE settle([s EXCEPT !.queue = Tail(s.queue)], Head(s.queue), "died")

flushQueue(s) ==
  IF s.queue = <<>> THEN s
  ELSE flushQueue(settle([s EXCEPT !.queue = Tail(s.queue)], Head(s.queue), "died"))

\* close handler, tail: setTimeout(() => this.startEngine(), 1000)
restartNow(s) == startEngine(s)

scheduleTwoRestarts(s) == [s EXCEPT !.restartTimers = @ + 2]

scheduleRestart(s) == [s EXCEPT !.restartTimers = @ + 1]

\* The 'close' event handler of the process.
closeHandlerNoFlush(s) ==
  scheduleRestart(
    [s EXCEPT !.ready = FALSE, !.stockfish = 0, !.listeners = <<>>, !.searches = <<>>,
              !.uciPending = FALSE, !.acked = FALSE, !.killed = FALSE, !.processing = FALSE])

closeHandlerBusy(s) ==
  scheduleRestart(
    flushQueue([s EXCEPT !.ready = FALSE, !.stockfish = 0, !.listeners = <<>>,
                         !.searches = <<>>, !.uciPending = FALSE, !.acked = FALSE,
                         !.killed = FALSE]))

closeHandler(s) ==
  scheduleRestart(
    [flushQueue([s EXCEPT !.ready = FALSE,
                          !.stockfish = 0,
                          !.listeners = <<>>,
                          !.searches = <<>>,
                          !.uciPending = FALSE,
                          !.acked = FALSE,
                          !.killed = FALSE])
      EXCEPT !.processing = FALSE])

----
\* getEngineConfig (lines 163-191).

\* Bounds of the ratings passed in.
MinRating == 400
MaxRating == 3300

Ratings == MinRating..MaxRating

MinElo == 500
MaxElo == 3200
NativeFloor == 1350
DefaultElo == 1500

\* randomMoveProbability is a multiple of 1/85000 for every integer rating:
\* 0.70 - (e - 500) * 0.65 / 850 = (59500 - 65 * (e - 500)) / 85000. It is kept
\* as that numerator. Neighbouring ratings differ by 65/85000, far more than the
\* rounding of the double arithmetic, so order and the comparisons with 0, 0.05
\* and 1 are those of the exact values; at 500 the code computes 0.70 - 0.
ProbabilityUnit == 85000

Min(a, b) == IF a < b THEN a ELSE b

Max(a, b) == IF a > b THEN a ELSE b

clampEloNoCeiling(e) == Max(MinElo, e)

clampElo(e) == Max(MinElo, Min(MaxElo, e))

nativeConfig(clampedElo) ==
  [useRandomWeakening |-> FALSE,
   sfSkillLevel |-> 20,
   uciLimitStrength |-> TRUE,
   uciElo |-> clampedElo,
   depth |-> 0,
   moveTime |-> 2000,
   randomMoveProbability |-> 0]

randomMoveProbabilitySteep(clampedElo) == 59500 - (clampedElo - MinElo) * 70

randomMoveProbability(clampedElo) == 59500 - (clampedElo - MinElo) * 65

weakenedConfigNative(clampedElo) ==
  [nativeConfig(clampedElo) EXCEPT !.randomMoveProbability = randomMoveProbability(clampedElo)]

weakenedConfig(clampedElo) ==
  [useRandomWeakening |-> TRUE,
   sfSkillLevel |-> 0,
   uciLimitStrength |-> FALSE,
   uciElo |-> 1320,
   depth |-> 4,
   moveTime |-> 200,
   randomMoveProbability |-> randomMoveProbability(clampedElo)]

getEngineConfigAboveFloor(e) ==
  IF clampElo(e) > NativeFloor THEN nativeConfig(clampElo(e)) ELSE weakenedConfig(clampElo(e))

getEngineConfig(e) ==
  IF clampElo(e) >= NativeFloor THEN nativeConfig(clampElo(e)) ELSE weakenedConfig(clampElo(e))

----
\* The commands the three operations write to the engine (lines 299-308,
\* 374-375, 448-456). The engine reads its input in order, so a 'go' is
\* searched with the option values left by the 'setoption' lines before it.

\* Bounds of the depth and count arguments.
MaxDepth == 15
MaxCount == 3

Depths == 1..MaxDepth
Counts == 1..MaxCount

\* Ratings on both sides of every branch of getEngineConfig.
OptionRatings ==
  {MinRating, MinElo, NativeFloor - 1, NativeFloor, DefaultElo, MaxElo, MaxRating}

\* A freshly spawned engine: full skill, no strength limit, one line.
spawnOptions == [skill |-> 20, limitStrength |-> FALSE, uciElo |-> 1320, multiPV |-> 1]

noGo == [kind |-> "none", depth |-> 0, moveTime |-> 0]

setoptions(c, count) ==
  [skill |-> c.sfSkillLevel, limitStrength |-> c.uciLimitStrength, uciElo |-> c.uciElo,
   multiPV |-> count]

\* getEngineBestMove: 'go depth d movetime t', or 'go movetime t' (depth 0 here).
goBestMove(c) ==
  IF c.depth > 0 THEN [kind |-> "best", depth |-> c.depth, moveTime |-> c.moveTime]
  ELSE [kind |-> "best", depth |-> 0, moveTime |-> c.moveTime]

\* getTopMoves: suggestDepth
suggestDepth(c) == IF c.depth > 0 THEN Max(c.depth, 8) ELSE 12

goTopMoves(c) == [kind |-> "top", depth |-> suggestDepth(c), moveTime |-> 0]

goEvaluate(depth) == [kind |-> "eval", depth |-> depth, moveTime |-> 0]

----
\* The engine's output as the data handlers read it (lines 279-295, 338-370,
\* 400-444). A chunk is a sequence of lines, a line a sequence of words, a word
\* a sequence of characters. The engine writes whole lines with single blanks,
\* so the handlers' substring tests and regular expressions are taken word by
\* word: 'includes' finds a whole word, a capture group is a prefix of the
\* word that follows the literal part.

Info == <<"i", "n", "f", "o">>
Depth == <<"d", "e", "p", "t", "h">>
Multipv == <<"m", "u", "l", "t", "i", "p", "v">>
Score == <<"s", "c", "o", "r", "e">>
Cp == <<"c", "p">>
Mate == <<"m", "a", "t", "e">>
Pv == <<"p", "v">>
Bestmove == <<"b", "e", "s", "t", "m", "o", "v", "e">>
Ponder == <<"p", "o", "n", "d", "e", "r">>
String == <<"s", "t", "r", "i", "n", "g">>
NoMove == <<"(", "n", "o", "n", "e", ")">>

Digits == {"0", "1", "2", "3", "4", "5", "6", "7", "8", "9"}
Files == {"a", "b", "c", "d", "e", "f", "g", "h"}
Ranks == {"1", "2", "3", "4", "5", "6", "7", "8"}
Promotions == {"q", "r", "b", "n"}

digitValue(c) ==
  CASE c = "0" -> 0 [] c = "1" -> 1 [] c = "2" -> 2 [] c = "3" -> 3 [] c = "4" -> 4
    [] c = "5" -> 5 [] c = "6" -> 6 [] c = "7" -> 7 [] c = "8" -> 8 [] c = "9" -> 9

digitChar(d) ==
  CASE d = 0 -> "0" [] d = 1 -> "1" [] d = 2 -> "2" [] d = 3 -> "3" [] d = 4 -> "4"
    [] d = 5 -> "5" [] d = 6 -> "6" [] d = 7 -> "7" [] d = 8 -> "8" [] d = 9 -> "9"

\* \d+ at the start of a word: its leading digits (<<>> = no match)
RECURSIVE digitsPrefix(_)
digitsPrefix(w) ==
  IF w # <<>> /\ Head(w) \in Digits THEN <<Head(w)>> \o digitsPrefix(Tail(w)) ELSE <<>>

\* -?\d+ at the start of a word
numberPrefix(w) ==
  IF w # <<>> /\ Head(w) = "-"
  THEN (IF digitsPrefix(Tail(w)) = <<>> THEN <<>> ELSE <<"-">> \o digitsPrefix(Tail(w)))
  ELSE digitsPrefix(w)

\* [a-h][1-8][a-h][1-8][qrbn]? at the start of a word
movePrefix(w) ==
  IF Len(w) >= 4 /\ w[1] \in Files /\ w[2] \in Ranks /\ w[3] \in Files /\ w[4] \in Ranks
  THEN (IF Len(w) >= 5 /\ w[5] \in Promotions THEN SubSeq(w, 1, 5) ELSE SubSeq(w, 1, 4))
  ELSE <<>>

\* parseInt of a matched -?\d+
RECURSIVE digitsValue(_, _)
digitsValue(ds, acc) ==
  IF ds = <<>> THEN acc ELSE digitsValue(Tail(ds), 10 * acc + digitValue(Head(ds)))

parseInt(w) == IF Head(w) = "-" THEN 0 - digitsValue(Tail(w), 0) ELSE digitsValue(w, 0)

MinOf(S) == CHOOSE x \in S : \A y \in S : x <= y

\* line.includes(word), line.includes('word1 word2')
includes(line, w) == \E i \in 1..Len(line) : line[i] = w

includes2(line, a, b) == \E i \in 1..(Len(line) - 1) : line[i] = a /\ line[i + 1] = b

\* line.match(/score cp (-?\d+)/), line.match(/score mate (-?\d+)/): the group of
\* the leftmost match, <<>> when there is none
scoreMatch(line, unit) ==
  LET I == {i \in 1..(Len(line) - 2) :
              line[i] = Score /\ line[i + 1] = unit /\ numberPrefix(line[i + 2]) # <<>>}
  IN IF I = {} THEN <<>> ELSE numberPrefix(line[MinOf(I) + 2])

\* line.match(/multipv (\d+)/)
multipvMatch(line) ==
  LET I == {i \in 1..(Len(line) - 1) : line[i] = Multipv /\ digitsPrefix(line[i + 1]) # <<>>}
  IN IF I = {} THEN <<>> ELSE digitsPrefix(line[MinOf(I) + 1])

\* line.match(/ pv ([a-h][1-8][a-h][1-8][qrbn]?)/): 'pv' needs a blank before it
pvMatch(line) ==
  LET I == {i \in 2..(Len(line) - 1) : line[i] = Pv /\ movePrefix(line[i + 1]) # <<>>}
  IN IF I = {} THEN <<>> ELSE movePrefix(line[MinOf(I) + 1])

\* line.match(/bestmove ([a-h][1-8][a-h][1-8][qrbn]?)/)
bestmoveMatch(line) ==
  LET I == {i \in 1..(Len(line) - 1) : line[i] = Bestmove /\ movePrefix(line[i + 1]) # <<>>}
  IN IF I = {} THEN <<>> ELSE movePrefix(line[MinOf(I) + 1])

----
\* What the engine writes. An engine line is kept as what the engine means by
\* it and is turned into words by formatLine.

\* Bound of the number of lines the handler receives in one chunk.
MaxChunkLines == 2

e2e4 == <<"e", "2", "e", "4">>
e7e8q == <<"e", "7", "e", "8", "q">>

SampleRanks == {0, 1, 2}
SampleScores == {[unit |-> "cp", n |-> 0 - 120], [unit |-> "mate", n |-> 3]}
SamplePvs == {<<e2e4>>, <<e7e8q, e2e4>>}
SampleMoves == {e7e8q, NoMove}

\* 'info depth 10 [multipv r] [score cp n | score mate n] [pv m ...]'; rank 0,
\* unit "none" and an empty pv stand for the missing part
infoLine(r, u, n, v) ==
  [type |-> "info", rank |-> r, unit |-> u, n |-> n, pv |-> v, move |-> <<>>, own |-> TRUE]

\* lines with rank, score and move
ScoredLines ==
  {infoLine(r, s.unit, s.n, v) : r \in SampleRanks \ {0}, s \in SampleScores, v \in SamplePvs}

\* lines without a rank (all an evaluatePosition search gives), without a
\* score, without a move
PartLines ==
  {infoLine(0, s.unit, s.n, <<e2e4>>) : s \in SampleScores}
    \cup {infoLine(0, "mate", 0 - 2, <<e2e4>>),
          infoLine(1, "none", 0, <<e2e4>>),
          infoLine(2, "cp", 0 - 120, <<>>)}

InfoLines == ScoredLines \cup PartLines

\* 'bestmove m ponder e2e4', or 'bestmove (none)'. own tells whether the line
\* ends the search of the call that receives it, or an earlier search that the
\* engine was still running when this call's commands were written.
BestmoveLines ==
  {[type |-> "bestmove", rank |-> 0, unit |-> "none", n |-> 0, pv |-> <<>>, move |-> m,
    own |-> o] : m \in SampleMoves, o \in BOOLEAN}

\* 'info string ...'
StringLine ==
  [type |-> "string", rank |-> 0, unit |-> "none", n |-> 0, pv |-> <<>>, move |-> <<>>,
   own |-> TRUE]

EngineLines == InfoLines \cup BestmoveLines \cup {StringLine}

Chunks == UNION {[1..n -> EngineLines] : n \in 1..MaxChunkLines}

RECURSIVE natWord(_)
natWord(n) == IF n < 10 THEN <<digitChar(n)>> ELSE natWord(n \div 10) \o <<digitChar(n % 10)>>

intWord(n) == IF n < 0 THEN <<"-">> \o natWord(0 - n) ELSE natWord(n)

formatLine(l) ==
  CASE l.type = "info" ->
         <<Info, Depth, natWord(10)>>
         \o (IF l.rank > 0 THEN <<Multipv, natWord(l.rank)>> ELSE <<>>)
         \o (IF l.unit = "cp" THEN <<Score, Cp, intWord(l.n)>>
             ELSE IF l.unit = "mate" THEN <<Score, Mate, intWord(l.n)>> ELSE <<>>)
         \o (IF l.pv # <<>> THEN <<Pv>> \o l.pv ELSE <<>>)
    [] l.type = "bestmove" ->
         <<Bestmove, l.move>> \o (IF l.move # NoMove THEN <<Ponder, e2e4>> ELSE <<>>)
    [] l.type = "string" -> <<Info, String, Depth>>

\* data.toString().split('\n'): the lines of the chunk and the empty rest after
\* the last newline
split(chunk) == [i \in 1..Len(chunk) |-> formatLine(chunk[i])] \o << <<>> >>

----
\* One call of getEngineBestMove, evaluatePosition or getTopMoves: its promise
\* and the closure of its command(). evaluation is kept in centipawns, that is
\* 100 times the number the code holds (parseInt / 100, and 100 or -100 for a
\* mate); mate is <<>> for undefined and <<n>> for the number n.

noValue == [move |-> <<>>, evaluation |-> 0, mate |-> <<>>, list |-> <<>>]

newCall(k) ==
  [kind |-> k,
   phase |-> IF k = "best" THEN "called" ELSE "queued",
                              \* "called", "queued", "running", "resolved", "rejected"
   via |-> "none",            \* the callback that settled the promise
   error |-> "",
   value |-> noValue,
   listening |-> FALSE,       \* dataHandler is registered
   timer |-> FALSE,           \* the 10 s timer is armed
   finishCalls |-> 0,         \* calls of finishProcessing() by this item
   evaluation |-> 0,
   bestMove |-> <<>>,
   mate |-> <<>>,
   results |-> <<>>,
   \* history: what the engine has said to this call's handler
   scored |-> [r \in SampleRanks \ {0} |-> <<>>],
                              \* per rank, the candidate of the last line with rank, score and move
   overwritten |-> FALSE,     \* a rank had such a line more than once
   incomplete |-> FALSE,      \* an info line lacked the rank, the score or the move
   terminalMove |-> "none",   \* "yes"/"no": the terminal chunk held a move
   preferred |-> <<>>,        \* the last score of the first-ranked variation
   request |-> [weakening |-> FALSE, legal |-> 0, below |-> FALSE, weighted |-> <<>>]]
                              \* getBestMove: useRandomWeakening, number of legal moves,
                              \* roll < randomMoveProbability, the moves the weighted
                              \* choice ran over

\* resolve and reject settle the promise once; later calls change nothing
resolveCall(c, v, by) ==
  IF c.phase \in {"called", "queued", "running"}
  THEN [c EXCEPT !.phase = "resolved", !.value = v, !.via = by] ELSE c

rejectCall(c, e, by) ==
  IF c.phase \in {"called", "queued", "running"}
  THEN [c EXCEPT !.phase = "rejected", !.error = e, !.via = by] ELSE c

finishCall(c) == [c EXCEPT !.finishCalls = @ + 1]

\* clearTimeout(timeout); removeListener('data', dataHandler)
detach(c) == [c EXCEPT !.timer = FALSE, !.listening = FALSE]

mateEvaluation(m) == IF m > 0 THEN 10000 ELSE 0 - 10000

\* results.sort((a, b) => a.rank - b.rank)
RECURSIVE insertByRank(_, _)
insertByRank(r, sorted) ==
  IF sorted = <<>> THEN <<r>>
  ELSE IF r.rank < Head(sorted).rank THEN <<r>> \o sorted
  ELSE <<Head(sorted)>> \o insertByRank(r, Tail(sorted))

RECURSIVE sortByRank(_)
sortByRank(rs) ==
  IF rs = <<>> THEN <<>>
  ELSE insertByRank(rs[Len(rs)], sortByRank(SubSeq(rs, 1, Len(rs) - 1)))

\* .map(({ rank, ...rest }) => rest)
withoutRank(rs) ==
  [i \in 1..Len(rs) |-> [move |-> rs[i].move, evaluation |-> rs[i].evaluation, mate |-> rs[i].mate]]

\* getEngineBestMove: dataHandler, on the whole chunk
bestFirstMatch(lines) ==
  LET I == {i \in 1..Len(lines) : bestmoveMatch(lines[i]) # <<>>}
  IN IF I = {} THEN <<>> ELSE bestmoveMatch(lines[MinOf(I)])

bestDataHandler(chunk, c) ==
  LET lines == split(chunk) IN
  IF \E i \in 1..Len(lines) : includes(lines[i], Bestmove)
  THEN IF bestFirstMatch(lines) # <<>>
       THEN resolveCall(finishCall(detach(c)), [noValue EXCEPT !.move = bestFirstMatch(lines)], "data")
       ELSE rejectCall(finishCall(detach(c)), "No best move found", "data")
  ELSE c

bestTimeoutNeutral(c) ==
  resolveCall(finishCall(detach(c)), noValue, "timeout")

bestTimeout(c) ==
  rejectCall(finishCall(detach(c)), "Stockfish timeout", "timeout")

\* evaluatePosition: the body of the loop over the lines
evaluateCp(line, c) ==
  IF includes2(line, Score, Cp) /\ scoreMatch(line, Cp) # <<>>
  THEN [c EXCEPT !.evaluation = parseInt(scoreMatch(line, Cp))] ELSE c

evaluateMate(line, c) ==
  IF includes2(line, Score, Mate) /\ scoreMatch(line, Mate) # <<>>
  THEN [c EXCEPT !.mate = <<parseInt(scoreMatch(line, Mate))>>,
                 !.evaluation = mateEvaluation(parseInt(scoreMatch(line, Mate)))]
  ELSE c

evaluateResult(c) == [noValue EXCEPT !.evaluation = c.evaluation, !.move = c.bestMove, !.mate = c.mate]

evaluateBestmove(line, c) ==
  IF includes(line, Bestmove)
  THEN LET c1 == [detach(c) EXCEPT
                    !.bestMove = IF bestmoveMatch(line) # <<>> THEN bestmoveMatch(line) ELSE @]
       IN resolveCall(finishCall(c1), evaluateResult(c1), "data")
  ELSE c

evaluateLine(line, c) == evaluateBestmove(line, evaluateMate(line, evaluateCp(line, c)))

RECURSIVE evaluateLines(_, _)
evaluateLines(lines, c) ==
  IF lines = <<>> THEN c ELSE evaluateLines(Tail(lines), evaluateLine(Head(lines), c))

evaluateDataHandler(chunk, c) == evaluateLines(split(chunk), c)

evaluateTimeoutPartial(c) == evaluateResult(c)

evaluateTimeoutResult(c) == noValue

evaluateTimeout(c) ==
  resolveCall(finishCall(detach(c)), evaluateTimeoutResult(c), "timeout")

\* getTopMoves: the body of the loop over the lines
topEntry(line) ==
  LET cp == scoreMatch(line, Cp)
      mt == scoreMatch(line, Mate)
  IN [move |-> pvMatch(line),
      evaluation |-> IF mt # <<>> THEN mateEvaluation(parseInt(mt))
                     ELSE IF cp # <<>> THEN parseInt(cp) ELSE 0,
      mate |-> IF mt # <<>> THEN <<parseInt(mt)>> ELSE <<>>,
      rank |-> parseInt(multipvMatch(line))]

\* update or insert
upsertAppend(rs, e) == Append(rs, e)

upsert(rs, e) ==
  LET I == {i \in 1..Len(rs) : rs[i].rank = e.rank}
  IN IF I # {} THEN [rs EXCEPT ![MinOf(I)] = e] ELSE Append(rs, e)

topInfo(line, c) ==
  IF /\ includes(line, Info)
     /\ includes(line, Multipv)
     /\ (includes2(line, Score, Cp) \/ includes2(line, Score, Mate))
     /\ multipvMatch(line) # <<>>
     /\ pvMatch(line) # <<>>
  THEN [c EXCEPT !.results = upsert(@, topEntry(line))]
  ELSE c

topResolve(c, by) ==
  LET c1 == [finishCall(detach(c)) EXCEPT !.results = sortByRank(@)]
  IN resolveCall(c1, [noValue EXCEPT !.list = withoutRank(c1.results)], by)

topBestmove(line, c) == IF includes(line, Bestmove) THEN topResolve(c, "data") ELSE c

topLine(line, c) == topBestmove(line, topInfo(line, c))

RECURSIVE topLines(_, _)
topLines(lines, c) ==
  IF lines = <<>> THEN c ELSE topLines(Tail(lines), topLine(Head(lines), c))

topDataHandler(chunk, c) == topLines(split(chunk), c)

topTimeout(c) == topResolve(c, "timeout")

\* What the engine has said up to its terminal line: per rank, the candidate
\* of the last line that had a rank, a score and a move.
candidate(l) ==
  [move |-> Head(l.pv),
   evaluation |-> IF l.unit = "cp" THEN l.n ELSE mateEvaluation(l.n),
   mate |-> IF l.unit = "mate" THEN <<l.n>> ELSE <<>>]

RECURSIVE said(_, _)
said(chunk, c) ==
  IF chunk = <<>> THEN c
  ELSE LET l == Head(chunk) IN
       IF l.type = "bestmove"
       THEN [c EXCEPT !.terminalMove =
               IF \E i \in 1..Len(chunk) : chunk[i].type = "bestmove" /\ chunk[i].move # NoMove
               THEN "yes" ELSE "no"]
       ELSE IF l.type = "info" /\ l.rank > 0 /\ l.unit # "none" /\ l.pv # <<>>
       THEN said(Tail(chunk), [c EXCEPT !.scored[l.rank] = <<candidate(l)>>,
                                        !.overwritten = @ \/ c.scored[l.rank] # <<>>])
       ELSE IF l.type = "info"
       THEN said(Tail(chunk), [c EXCEPT !.incomplete = TRUE])
       ELSE said(Tail(chunk), c)

\* The engine ends the search of a position without legal moves with
\* 'bestmove (none)', and of any other position with a move. It ends its
\* searches in the order of their 'go', so the terminal line of the call's own
\* search is the last terminal line the call's handler can see. It reports as
\* many variations as its MultiPV option says, which evaluatePosition leaves
\* as it finds it.
answers(chunk, c) ==
  /\ c.kind = "best" =>
       \A i \in 1..Len(chunk) :
         (chunk[i].type = "bestmove" /\ chunk[i].own) =>
           (chunk[i].move = NoMove <=> c.request.legal = 0)
  /\ \A i, j \in 1..Len(chunk) :
       (i < j /\ chunk[i].type = "bestmove" /\ chunk[i].own) => chunk[j].type # "bestmove"
  /\ c.kind = "eval" =>
       \A i \in 1..Len(chunk) : chunk[i].type = "info" => chunk[i].rank <= options.multiPV

\* the score of an info line, as the handlers read it
score(l) == IF l.unit = "cp" THEN l.n ELSE mateEvaluation(l.n)

\* history of an evaluatePosition call: the scores of the first-ranked
\* variation ('multipv 1', or no rank at all) up to the terminal line
RECURSIVE saidPreferred(_, _)
saidPreferred(chunk, c) ==
  IF chunk = <<>> \/ Head(chunk).type = "bestmove" THEN c
  ELSE LET l == Head(chunk) IN
       IF l.type = "info" /\ l.rank <= 1 /\ l.unit # "none"
       THEN saidPreferred(Tail(chunk), [c EXCEPT !.preferred = <<score(l)>>])
       ELSE saidPreferred(Tail(chunk), c)

\* The three operations' handlers, by the kind of the call.
saidTerminal(chunk, c) == [c EXCEPT !.terminalMove = said(chunk, c).terminalMove]

callDataHandler(chunk, c) ==
  CASE c.kind = "best" -> bestDataHandler(chunk, saidTerminal(chunk, c))
    [] c.kind = "eval" -> evaluateDataHandler(chunk, saidPreferred(chunk, saidTerminal(chunk, c)))
    [] c.kind = "top" -> topDataHandler(chunk, said(chunk, c))

callTimeout(c) ==
  CASE c.kind = "best" -> bestTimeout(c)
    [] c.kind = "eval" -> evaluateTimeout(c)
    [] c.kind = "top" -> topTimeout(c)

\* getBestMove and getWeakenedMove (lines 198-260). legalMoves is what chess.js
\* returns for the position; roll is Math.random() in units of 1/85000; r is
\* Math.random() * totalWeight and pick the index of the fallback after the
\* weighted loop.

\* Bound of the number of legal moves of the position.
MaxLegalMoves == 2

SampleLegalMoves ==
  {[from |-> <<"e", "2">>, to |-> <<"e", "4">>, promotion |-> <<>>, captured |-> FALSE],
   [from |-> <<"e", "7">>, to |-> <<"d", "8">>, promotion |-> <<"n">>, captured |-> TRUE]}

LegalMoveLists == UNION {[1..n -> SampleLegalMoves] : n \in 0..MaxLegalMoves}

Rolls(p) == {0, p - 1, p, ProbabilityUnit - 1} \cap 0..(ProbabilityUnit - 1)

\* m.from + m.to + (m.promotion || '')
moveString(m) == m.from \o m.to \o m.promotion

\* weight = 1, += 0.5 for a capture; kept in halves
weightEqual(m) == 2

weight(m) == IF m.captured THEN 3 ELSE 2

RECURSIVE totalWeight(_)
totalWeight(moves) ==
  IF moves = <<>> THEN 0 ELSE weight(Head(moves)) + totalWeight(Tail(moves))

\* Math.random() * totalWeight is a number from 0 up to, not including,
\* totalWeight: floor is its integer part in halves, whole tells whether it is
\* that integer itself.
Draws(moves) ==
  {[floor |-> n, whole |-> w] : n \in 0..(totalWeight(moves) - 1), w \in BOOLEAN}

noDraw == [floor |-> 0, whole |-> TRUE]

\* for (const w of weighted) { r -= w.weight; if (r <= 0) return ... }: the
\* index of the move the loop returns from position k on, 0 when it ends
\* without returning
RECURSIVE weightedChoice(_, _, _)
weightedChoice(moves, k, r) ==
  IF k > Len(moves) THEN 0
  ELSE LET r1 == [r EXCEPT !.floor = @ - weight(moves[k])]
       IN IF r1.floor < 0 \/ (r1.floor = 0 /\ r1.whole) THEN k
          ELSE weightedChoice(moves, k + 1, r1)

\* the move of the weighted loop, or of the fallback after it
randomMove(legalMoves, r, pick) ==
  LET k == weightedChoice(legalMoves, 1, r)
  IN IF k # 0 THEN legalMoves[k] ELSE legalMoves[pick]

getWeakenedMoveEngineOnly(legalMoves, roll, r, pick, cfg, c) ==
  IF Len(legalMoves) = 0 THEN rejectCall(c, "No legal moves available", "weakened")
  ELSE [c EXCEPT !.phase = "queued"]

getWeakenedMove(legalMoves, roll, r, pick, cfg, c) ==
  IF Len(legalMoves) = 0 THEN rejectCall(c, "No legal moves available", "weakened")
  ELSE IF Len(legalMoves) = 1
  THEN resolveCall(c, [noValue EXCEPT !.move = moveString(legalMoves[1])], "weakened")
  ELSE IF roll < cfg.randomMoveProbability
  THEN resolveCall(c, [noValue EXCEPT !.move = moveString(randomMove(legalMoves, r, pick))],
                   "weakened")
  ELSE [c EXCEPT !.phase = "queued"]

getBestMove(e, legalMoves, roll, r, pick, c) ==
  IF getEngineConfig(e).useRandomWeakening
  THEN getWeakenedMove(legalMoves, roll, r, pick, getEngineConfig(e), c)
  ELSE [c EXCEPT !.phase = "queued"]

\* command(): without a process the item is rejected, else the timer is armed
\* and the handler registered
callCommand(available, c) ==
  IF ~available THEN rejectCall(finishCall(c), "Stockfish not available", "command")
  ELSE [c EXCEPT !.phase = "running", !.timer = TRUE, !.listening = TRUE]

(***************************************************************************)
(* POST /api/games/:id/analyze: the evaluation of every ply and the        *)
(* classification of every move                                            *)
(***************************************************************************)

\* Evaluations are kept in hundredths of a pawn: the code's number is
\* parseInt(cp) / 100, the model's is parseInt(cp), and the thresholds are
\* scaled alike.
BlunderLimit == -300
MistakeLimit == -150
InaccuracyLimit == -50
BrilliantLimit == 50

MaxMoves == 3
MaxStale == 1

Sides == {"w", "b"}

\* chess.turn() after n moves from the start position of new Chess()
turnAfter(n) == IF n % 2 = 0 THEN "w" ELSE "b"

\* { evaluation: 0, bestMove: '', mate: undefined }
neutral == [evaluation |-> 0, bestMove |-> <<>>, mate |-> <<>>]

\* What the engine holds of a position, seen from White: scores around the
\* thresholds, a mate, and a score with a mate distance left over from an
\* earlier line.
SampleEvaluations == {-310, -300, -160, -150, -40, 0, 50, 60}

SampleVerdicts ==
  {[evaluation |-> v, mate |-> <<>>] : v \in SampleEvaluations}
    \cup {[evaluation |-> mateEvaluation(-1), mate |-> <<-1>>],
          [evaluation |-> -120, mate |-> <<3>>]}

\* -x of an evaluation and of a mate distance, undefined staying undefined
negated(v) ==
  [v EXCEPT !.evaluation = -@, !.mate = IF @ = <<>> THEN <<>> ELSE <<-@[1]>>]

\* The engine scores a position for the side to move in it.
reportedBy(search) ==
  LET v == IF search.side = "w" THEN search.verdict ELSE negated(search.verdict)
  IN [evaluation |-> v.evaluation, bestMove |-> e2e4, mate |-> v.mate]

\* The ways one evaluatePosition call for the position `search` can end while
\* the searches of `stale` (timed-out calls, never stopped) are still in the
\* engine: rejected with the process gone; resolved neutral by its timer, its
\* search staying behind; resolved by the first terminal line that arrives,
\* which is the line of the oldest search in the engine.
evaluatePosition(search, stale) ==
  {[kind |-> "failed", result |-> neutral, searched |-> search, stale |-> <<>>]}
    \cup {[kind |-> "timeout", result |-> neutral, searched |-> search,
           stale |-> Append(stale, search)] : n \in {m \in {0} : Len(stale) < MaxStale}}
    \cup {IF stale = <<>>
          THEN [kind |-> "own", result |-> reportedBy(search), searched |-> search,
                stale |-> <<>>]
          ELSE [kind |-> "stale", result |-> reportedBy(Head(stale)), searched |-> Head(stale),
                stale |-> Append(Tail(stale), search)]}

\* prevEval after the start position was evaluated
startReference(o) == IF o.kind = "failed" THEN neutral ELSE o.result

\* the evaluation of the position after the move, brought to White's side
normalize(sideToMoveAfter, result) ==
  IF sideToMoveAfter = "b" THEN negated(result) ELSE result

evaluationAfter(sideToMoveAfter, prevEval, o) ==
  IF o.kind = "failed"
  THEN [evaluation |-> prevEval.evaluation, bestMove |-> <<>>, mate |-> <<>>]
  ELSE normalize(sideToMoveAfter, o.result)

\* A difference of two evaluations as the code computes it: both operands are
\* doubles nearest to a number of hundredths, so the double difference is the
\* exact one (cp hundredths) or its neighbour below (err = -1) or above
\* (err = 1); -7.97 - -4.97 is -3.0000000000000004 for instance.
difference(minuend, subtrahend, r) == [cp |-> minuend - subtrahend, err |-> r]

\* The roundings a difference can take; with an operand 0 or equal operands
\* the double difference is exact.
Roundings(minuend, subtrahend) ==
  IF minuend = 0 \/ subtrahend = 0 \/ minuend = subtrahend THEN {0} ELSE {-1, 0, 1}

\* d < limit and d > limit for a difference d and a limit in hundredths
less(d, limit) == d.cp < limit \/ (d.cp = limit /\ d.err < 0)

greater(d, limit) == d.cp > limit \/ (d.cp = limit /\ d.err > 0)

evalDiffWhiteOnly(turn, prevEval, evaluation, r) ==
  difference(evaluation.evaluation, prevEval.evaluation, r)

\* evalDiff, r being the rounding of the subtraction that is carried out
evalDiff(turn, prevEval, evaluation, r) ==
  IF turn = "w"
  THEN difference(evaluation.evaluation, prevEval.evaluation, r)
  ELSE difference(prevEval.evaluation, evaluation.evaluation, r)

classifyInclusive(d) ==
  IF ~greater(d, BlunderLimit) THEN "blunder"
  ELSE IF ~greater(d, MistakeLimit) THEN "mistake"
  ELSE IF ~greater(d, InaccuracyLimit) THEN "inaccuracy"
  ELSE IF ~less(d, BrilliantLimit) THEN "brilliant"
  ELSE "good"

classify(d) ==
  IF less(d, BlunderLimit) THEN "blunder"
  ELSE IF less(d, MistakeLimit) THEN "mistake"
  ELSE IF less(d, InaccuracyLimit) THEN "inaccuracy"
  ELSE IF greater(d, BrilliantLimit) THEN "brilliant"
  ELSE "good"

analyseMoveFirstGood(i, prevEval, evaluation, r) ==
  LET d == IF i = 0 THEN difference(0, 0, 0) ELSE evalDiff(turnAfter(i), prevEval, evaluation, r)
  IN [index |-> i + 1,
      turn |-> turnAfter(i),
      evaluation |-> evaluation.evaluation,
      mate |-> evaluation.mate,
      bestMove |-> prevEval.bestMove,
      bestMoveEval |-> prevEval.evaluation,
      classification |-> classify(d),
      evalDiff |-> d]

\* The entry pushed for move i + 1: i moves were made before it, prevEval is
\* the reference and evaluation the normalized evaluation after the move.
analyseMove(i, prevEval, evaluation, r) ==
  LET d == evalDiff(turnAfter(i), prevEval, evaluation, r)
  IN [index |-> i + 1,
      turn |-> turnAfter(i),
      evaluation |-> evaluation.evaluation,
      mate |-> evaluation.mate,
      bestMove |-> prevEval.bestMove,
      bestMoveEval |-> prevEval.evaluation,
      classification |-> classify(d),
      evalDiff |-> d]

noEntry ==
  [index |-> 0, turn |-> "w", evaluation |-> 0, mate |-> <<>>, bestMove |-> <<>>,
   bestMoveEval |-> 0, classification |-> "good", evalDiff |-> difference(0, 0, 0)]

\* No evaluatePosition call was made yet.
noUse == [kind |-> "none", searched |-> [side |-> "w", verdict |-> [evaluation |-> 0, mate |-> <<>>]]]

\* The handler's locals: prevEval, the number of entries pushed and the last
\* of them; stale is the engine's side, used is the history of the last
\* evaluatePosition call and reference the prevEval the last entry was
\* computed from.
noAnalysis ==
  [phase |-> "idle", i |-> 0, prevEval |-> neutral, last |-> noEntry, stale |-> <<>>,
   used |-> noUse, reference |-> neutral, rounding |-> 0]

\* The single-function variables while no single function is under study.
FunctionIdle ==
  /\ elo = DefaultElo
  /\ config = getEngineConfig(DefaultElo)
  /\ options = spawnOptions
  /\ go = noGo
  /\ call = newCall("none")
  /\ analysis = noAnalysis

----
\* State after the constructor has run startEngine() once.
EngineInit ==
  /\ stockfish = 1
  /\ spawns = 1
  /\ ready = FALSE
  /\ queue = <<>>
  /\ processing = FALSE
  /\ listeners = <<>>
  /\ timers = <<>>
  /\ restartTimers = 0
  /\ outcome = [i \in Items |-> "none"]
  /\ kind = [i \in Items |-> "none"]
  /\ uciPending = TRUE
  /\ acked = FALSE
  /\ searches = <<>>
  /\ killed = FALSE
  /\ submitted = 0
  /\ dispatched = <<>>
  /\ submitEpoch = [i \in Items |-> 0]
  /\ waitPos = [i \in Items |-> 0]
  /\ closeCalled = FALSE
  /\ lastStep = "constructor"

Init == EngineInit /\ FunctionIdle

\* getEngineBestMove / evaluatePosition / getTopMoves: queue.push(item); processQueue()
SubmitItem(limit) ==
  /\ submitted < limit
  /\ \E k \in Kinds :
       LET i == submitted + 1
           s0 == [Cur EXCEPT !.kind[i] = k, !.outcome[i] = "pending", !.queue = push(@, i)]
       IN /\ Commit(processQueue(s0))
          /\ submitted' = i
          /\ submitEpoch' = [submitEpoch EXCEPT ![i] = spawns]
          /\ waitPos' = [waitPos EXCEPT ![i] = Len(s0.queue)]
  /\ lastStep' = "submit"
  /\ UNCHANGED closeCalled
  /\ UNCHANGED functionVars

Submit == SubmitItem(MaxItems)

FairSubmit == SubmitItem(MaxFairItems)

\* The engine answers 'uci' with 'uciok'; the chunk reaches the stdout listeners.
EngineAck ==
  /\ stockfish # 0
  /\ uciPending
  /\ Commit(emitData([uciok |-> TRUE, bestmove |-> FALSE, move |-> FALSE],
                     [Cur EXCEPT !.uciPending = FALSE, !.acked = TRUE]))
  /\ lastStep' = "uciok"
  /\ UNCHANGED <<submitted, submitEpoch, waitPos, closeCalled>>
  /\ UNCHANGED functionVars

\* The engine emits the terminal line of its oldest unfinished search, with a
\* move ('bestmove e2e4') or without one ('bestmove (none)').
EngineBestmove ==
  /\ stockfish # 0
  /\ searches # <<>>
  /\ \E m \in BOOLEAN :
       Commit(emitData([uciok |-> FALSE, bestmove |-> TRUE, move |-> m],
                       [Cur EXCEPT !.searches = Tail(@)]))
  /\ lastStep' = "bestmove"
  /\ UNCHANGED <<submitted, submitEpoch, waitPos, closeCalled>>
  /\ UNCHANGED functionVars

\* The oldest pending item timer fires.
Timeout ==
  /\ timers # <<>>
  /\ Commit(onTimeout(Head(timers), Cur))
  /\ lastStep' = "timeout"
  /\ UNCHANGED <<submitted, submitEpoch, waitPos, closeCalled>>
  /\ UNCHANGED functionVars

\* The process exits (crash, or the kill sent by close()) and 'close' is emitted.
ProcessClosed ==
  /\ stockfish # 0
  /\ spawns < MaxSpawns
  /\ Commit(closeHandler(Cur))
  /\ lastStep' = "closed"
  /\ UNCHANGED <<submitted, submitEpoch, waitPos, closeCalled>>
  /\ UNCHANGED functionVars

\* A restart timer armed by the close handler fires.
RestartTimer ==
  /\ restartTimers > 0
  /\ Commit(startEngine([Cur EXCEPT !.restartTimers = @ - 1]))
  /\ lastStep' = "restart"
  /\ UNCHANGED <<submitted, submitEpoch, waitPos, closeCalled>>
  /\ UNCHANGED functionVars

\* close(): this.stockfish?.kill()
Close ==
  /\ stockfish # 0
  /\ ~killed
  /\ spawns < MaxSpawns
  /\ killed' = TRUE
  /\ closeCalled' = (closeCalled \/ ready)
  /\ lastStep' = "close"
  /\ UNCHANGED <<stockfish, ready, queue, processing, listeners, timers, restartTimers, outcome,
                 kind, uciPending, acked, searches, spawns, submitted, dispatched, submitEpoch,
                 waitPos>>
  /\ UNCHANGED functionVars

Next ==
  \/ Submit
  \/ EngineAck
  \/ EngineBestmove
  \/ Timeout
  \/ ProcessClosed
  \/ RestartTimer
  \/ Close

Spec == Init /\ [][Next]_vars

FairNext ==
  \/ FairSubmit
  \/ EngineAck
  \/ EngineBestmove
  \/ Timeout
  \/ ProcessClosed
  \/ RestartTimer
  \/ Close

\* Timers fire, and a live engine answers the handshake. Nothing obliges the
\* engine to finish a search or to stay alive.
FairSpec ==
  Init /\ [][FairNext]_vars /\ WF_vars(Timeout) /\ WF_vars(RestartTimer) /\ WF_vars(EngineAck)

\* getEngineConfig is called with every rating of Ratings in turn, lowest first.
ConfigInit ==
  /\ EngineInit
  /\ elo = MinRating
  /\ config = getEngineConfig(elo)
  /\ options = spawnOptions
  /\ go = noGo
  /\ call = newCall("none")
  /\ analysis = noAnalysis

GetEngineConfig ==
  /\ elo + 1 \in Ratings
  /\ elo' = elo + 1
  /\ config' = getEngineConfig(elo + 1)
  /\ UNCHANGED <<options, go, call, analysis>>
  /\ UNCHANGED engineVars

ConfigNext == GetEngineConfig

ConfigSpec == ConfigInit /\ [][ConfigNext]_vars

\* The writes of successive operations to one engine process, and its respawn.
\* Only what is written matters here, so the queue is left out: each action is
\* the run of one item's command(), in whatever order the queue dispatched them.
OptionInit == EngineInit /\ FunctionIdle

\* command() of getEngineBestMove, with the configuration of rating e
WriteBestMove ==
  /\ \E e \in OptionRatings :
       /\ elo' = e
       /\ config' = getEngineConfig(e)
       /\ options' = setoptions(getEngineConfig(e), 1)
       /\ go' = goBestMove(getEngineConfig(e))
  /\ UNCHANGED <<call, analysis>>
  /\ UNCHANGED engineVars

\* command() of evaluatePosition: 'position' and 'go depth' only
WriteEvaluate ==
  /\ \E d \in Depths : go' = goEvaluate(d)
  /\ UNCHANGED <<elo, config, options, call, analysis>>
  /\ UNCHANGED engineVars

\* command() of getTopMoves
WriteTopMoves ==
  /\ \E e \in OptionRatings, count \in Counts :
       /\ elo' = e
       /\ config' = getEngineConfig(e)
       /\ options' = setoptions(getEngineConfig(e), count)
       /\ go' = goTopMoves(getEngineConfig(e))
  /\ UNCHANGED <<call, analysis>>
  /\ UNCHANGED engineVars

\* The process exits and startEngine spawns a new one.
Respawn ==
  /\ options # spawnOptions
  /\ options' = spawnOptions
  /\ go' = noGo
  /\ UNCHANGED <<elo, config, call, analysis>>
  /\ UNCHANGED engineVars

OptionNext ==
  \/ WriteBestMove
  \/ WriteEvaluate
  \/ WriteTopMoves
  \/ Respawn

OptionSpec == OptionInit /\ [][OptionNext]_vars

\* The life of one call from its push on the queue to the settling of its
\* promise. The queue and the process are left out: whether the supervisor is
\* ready, whether the process exists and when it exits are inputs here.
CallInit ==
  /\ EngineInit
  /\ elo = DefaultElo
  /\ config = getEngineConfig(DefaultElo)
  /\ options = spawnOptions
  /\ go = noGo
  /\ \E k \in Kinds : call = newCall(k)
  /\ analysis = noAnalysis

\* the weighted choice runs: weakening, two legal moves or more, roll below
\* the probability
Weighs(e, legalMoves, roll) ==
  /\ getEngineConfig(e).useRandomWeakening
  /\ Len(legalMoves) >= 2
  /\ roll < getEngineConfig(e).randomMoveProbability

\* history of a getBestMove call
request(e, legalMoves, roll) ==
  [weakening |-> getEngineConfig(e).useRandomWeakening,
   legal |-> Len(legalMoves),
   below |-> roll < getEngineConfig(e).randomMoveProbability,
   weighted |-> IF Weighs(e, legalMoves, roll) THEN legalMoves ELSE <<>>]

\* getBestMove(fen, elo) up to the push of getEngineBestMove's item
GetBestMove ==
  /\ call.phase = "called"
  /\ \E e \in OptionRatings, legalMoves \in LegalMoveLists :
       \E roll \in Rolls(getEngineConfig(e).randomMoveProbability) :
         \E r \in IF Weighs(e, legalMoves, roll) THEN Draws(legalMoves) ELSE {noDraw} :
           \E pick \in IF Weighs(e, legalMoves, roll) /\ weightedChoice(legalMoves, 1, r) = 0
                       THEN 1..Len(legalMoves) ELSE {1} :
             call' = [getBestMove(e, legalMoves, roll, r, pick, call) EXCEPT
                        !.request = request(e, legalMoves, roll)]
  /\ UNCHANGED <<elo, config, options, go, analysis>>
  /\ UNCHANGED engineVars

\* processQueue finds the supervisor not ready
CallNotReady ==
  /\ call.phase = "queued"
  /\ call' = rejectCall(call, "Stockfish engine not ready", "processQueue")
  /\ UNCHANGED <<elo, config, options, go, analysis>>
  /\ UNCHANGED engineVars

\* the close handler flushes the queue
CallFlushed ==
  /\ call.phase = "queued"
  /\ call' = rejectCall(call, "Stockfish process died", "close")
  /\ UNCHANGED <<elo, config, options, go, analysis>>
  /\ UNCHANGED engineVars

\* processQueue runs the item's command()
CallCommand ==
  /\ call.phase = "queued"
  /\ \E available \in BOOLEAN : call' = callCommand(available, call)
  /\ UNCHANGED <<elo, config, options, go, analysis>>
  /\ UNCHANGED engineVars

\* a chunk of engine output reaches the registered handler
CallData ==
  /\ call.listening
  /\ \E chunk \in Chunks :
       /\ answers(chunk, call)
       /\ call' = callDataHandler(chunk, call)
  /\ UNCHANGED <<elo, config, options, go, analysis>>
  /\ UNCHANGED engineVars

\* the 10 s timer fires
CallTimeout ==
  /\ call.timer
  /\ call' = callTimeout(call)
  /\ UNCHANGED <<elo, config, options, go, analysis>>
  /\ UNCHANGED engineVars

CallNext ==
  \/ GetBestMove
  \/ CallNotReady
  \/ CallFlushed
  \/ CallCommand
  \/ CallData
  \/ CallTimeout

CallSpec == CallInit /\ [][CallNext]_vars

\* getBestMove beside the queue and the supervisor: the weakened branch
\* settles by itself, the other branch is the push of getEngineBestMove's item.
\* chess.js is asked for the legal moves only on the weakened branch, the roll
\* is drawn only with two legal moves or more, the random number of the
\* weighted choice only after a roll below the probability. call holds the last call of getBestMove up to its push.
\* Bound of the number of getBestMove calls that reach the queue.
MaxBestMoves == 1

\* One value of the random number for every move the weighted loop can
\* return: just above the weights of the moves before it.
OneDrawEach(legalMoves) ==
  {[floor |-> totalWeight(SubSeq(legalMoves, 1, k - 1)), whole |-> FALSE] :
     k \in 1..Len(legalMoves)}

BestMove ==
  /\ \E e \in OptionRatings :
       LET cfg == getEngineConfig(e) IN
       \E legalMoves \in IF cfg.useRandomWeakening THEN LegalMoveLists ELSE {<<>>} :
         \E roll \in IF cfg.useRandomWeakening /\ Len(legalMoves) >= 2
                     THEN Rolls(cfg.randomMoveProbability) ELSE {0} :
           LET weighs == Weighs(e, legalMoves, roll) IN
           \E r \in IF weighs THEN OneDrawEach(legalMoves) ELSE {noDraw} :
             LET c == [getBestMove(e, legalMoves, roll, r, 1, newCall("best")) EXCEPT
                         !.request = [weakening |-> cfg.useRandomWeakening,
                                      legal |-> Len(legalMoves),
                                      below |-> roll < cfg.randomMoveProbability,
                                      weighted |-> <<>>]]
                 i == submitted + 1
                 s0 == [Cur EXCEPT !.kind[i] = "best", !.outcome[i] = "pending",
                                   !.queue = push(@, i)]
             IN /\ call' = c
                /\ IF c.phase = "queued"
                   THEN /\ submitted < MaxBestMoves
                        /\ Commit(processQueue(s0))
                        /\ submitted' = i
                        /\ submitEpoch' = [submitEpoch EXCEPT ![i] = spawns]
                        /\ waitPos' = [waitPos EXCEPT ![i] = Len(s0.queue)]
                   ELSE /\ Commit(Cur)
                        /\ UNCHANGED <<submitted, submitEpoch, waitPos>>
  /\ lastStep' = "bestMove"
  /\ UNCHANGED closeCalled
  /\ UNCHANGED <<elo, config, options, go, analysis>>

BestMoveNext ==
  \/ BestMove
  \/ EngineAck
  \/ EngineBestmove
  \/ Timeout
  \/ ProcessClosed
  \/ RestartTimer

BestMoveSpec == Init /\ [][BestMoveNext]_vars

\* One run of the analysis handler for a game of at most MaxMoves moves. The
\* engine may still hold the search of a timed-out call of an earlier request.
Searches == {[side |-> s, verdict |-> v] : s \in Sides, v \in SampleVerdicts}

AnalyzeInit ==
  /\ EngineInit
  /\ elo = DefaultElo
  /\ config = getEngineConfig(DefaultElo)
  /\ options = spawnOptions
  /\ go = noGo
  /\ call = newCall("none")
  /\ \E stale \in {<<>>} \cup {<<s>> : s \in Searches} :
       analysis = [noAnalysis EXCEPT !.phase = "start", !.stale = stale]

\* the start position is evaluated as the reference of the first move
EvaluateStart ==
  /\ analysis.phase = "start"
  /\ \E v \in SampleVerdicts :
       \E o \in evaluatePosition([side |-> turnAfter(0), verdict |-> v], analysis.stale) :
         analysis' = [analysis EXCEPT !.phase = "loop",
                                      !.prevEval = startReference(o),
                                      !.stale = o.stale,
                                      !.used = [kind |-> o.kind, searched |-> o.searched]]
  /\ UNCHANGED <<elo, config, options, go, call>>
  /\ UNCHANGED engineVars

\* one turn of the loop: the move is made, the position after it evaluated
\* and normalized, the move classified and the entry pushed
AnalyseMove ==
  /\ analysis.phase = "loop"
  /\ analysis.i < MaxMoves
  /\ \E v \in SampleVerdicts :
       \E o \in evaluatePosition([side |-> turnAfter(analysis.i + 1), verdict |-> v],
                                 analysis.stale) :
         LET evaluation == evaluationAfter(turnAfter(analysis.i + 1), analysis.prevEval, o)
             minuend == IF turnAfter(analysis.i) = "w" THEN evaluation.evaluation
                        ELSE analysis.prevEval.evaluation
             subtrahend == IF turnAfter(analysis.i) = "w" THEN analysis.prevEval.evaluation
                           ELSE evaluation.evaluation
         IN \E r \in Roundings(minuend, subtrahend) :
              analysis' = [analysis EXCEPT !.i = @ + 1,
                                           !.last = analyseMove(analysis.i, analysis.prevEval,
                                                                evaluation, r),
                                           !.prevEval = evaluation,
                                           !.reference = analysis.prevEval,
                                           !.rounding = r,
                                           !.stale = o.stale,
                                           !.used = [kind |-> o.kind, searched |-> o.searched]]
  /\ UNCHANGED <<elo, config, options, go, call>>
  /\ UNCHANGED engineVars

\* the output of the oldest search left in the engine arrives at the handler
\* of another request's item, or at nobody
StaleOutput ==
  /\ analysis.phase \in {"start", "loop"}
  /\ analysis.stale # <<>>
  /\ analysis' = [analysis EXCEPT !.stale = Tail(@)]
  /\ UNCHANGED <<elo, config, options, go, call>>
  /\ UNCHANGED engineVars

\* the loop has ended, with the last move of the game or with a move that
\* could not be made, and the analysis is sent
Respond ==
  /\ analysis.phase = "loop"
  /\ analysis' = [analysis EXCEPT !.phase = "done"]
  /\ UNCHANGED <<elo, config, options, go, call>>
  /\ UNCHANGED engineVars

AnalyzeNext == EvaluateStart \/ AnalyseMove \/ StaleOutput \/ Respond

AnalyzeSpec == AnalyzeInit /\ [][AnalyzeNext]_vars

\* evaluatePosition after the operations that wrote to the same process
\* before it: what they left of the options decides what the engine reports.
EvaluateInit == EngineInit /\ FunctionIdle

\* an earlier getEngineBestMove, at the rating of the configuration
EarlierBestMove ==
  /\ call.kind = "none"
  /\ go.kind # "best"
  /\ options' = setoptions(config, 1)
  /\ go' = goBestMove(config)
  /\ UNCHANGED <<elo, config, call, analysis>>
  /\ UNCHANGED engineVars

\* an earlier getTopMoves
EarlierTopMoves ==
  /\ call.kind = "none"
  /\ go.kind # "top"
  /\ \E count \in Counts : options' = setoptions(config, count)
  /\ go' = goTopMoves(config)
  /\ UNCHANGED <<elo, config, call, analysis>>
  /\ UNCHANGED engineVars

\* command() of evaluatePosition
EvaluateCommand ==
  /\ call.kind = "none"
  /\ call' = callCommand(TRUE, newCall("eval"))
  /\ go' = goEvaluate(MaxDepth)
  /\ UNCHANGED <<elo, config, options, analysis>>
  /\ UNCHANGED engineVars

EvaluateNext ==
  \/ EarlierBestMove
  \/ EarlierTopMoves
  \/ EvaluateCommand
  \/ CallData
  \/ CallTimeout

EvaluateSpec == EvaluateInit /\ [][EvaluateNext]_vars

TypeOK ==
  /\ elo \in Ratings
  /\ config = getEngineConfig(elo)
  /\ options.skill \in {0, 20} /\ options.limitStrength \in BOOLEAN /\ options.multiPV \in Counts
  /\ go.kind \in Kinds \cup {"none"}
  /\ call.kind \in Kinds \cup {"none"}
  /\ call.phase \in {"called", "queued", "running", "resolved", "rejected"}
  /\ analysis.phase \in {"idle", "start", "loop", "done"}
  /\ analysis.i \in 0..MaxMoves
  /\ Len(analysis.stale) <= MaxStale
  /\ stockfish \in 0..MaxSpawns
  /\ ready \in BOOLEAN
  /\ processing \in BOOLEAN
  /\ Range(queue) \subseteq Items
  /\ Range(timers) \subseteq Items
  /\ Range(listeners) \subseteq Items

----
(***************************************************************************)
(* Vocabulary of the properties                                            *)
(***************************************************************************)

\* Items whose commands were written to process p.
WrittenTo(p) == {dispatched[n].item : n \in {m \in DOMAIN dispatched : dispatched[m].pid = p}}

DispatchedItems == {dispatched[n].item : n \in DOMAIN dispatched}

\* In flight: commands written to the live process, promise pending, timer armed.
InFlight ==
  {i \in Items : /\ stockfish # 0
                 /\ i \in WrittenTo(stockfish)
                 /\ outcome[i] = "pending"
                 /\ i \in Range(timers)}

\* The last step ran item commands (the dispatched history grew).
LastDispatched == dispatched[Len(dispatched)]

----
\* C1: in every reachable state at most one dispatched item is in flight
\* (commands written to the engine, awaiting its terminal line or its timeout).
C1_SingleFlight == Cardinality(InFlight) <= 1

\* C2: items are dispatched in submission order; no item overtakes an
\* earlier-submitted one, whatever the kinds of the items.
C2_Fifo ==
  \A m, n \in DOMAIN dispatched : m < n => dispatched[m].item < dispatched[n].item

\* Three items of which the third waited behind a waiting second have all been dispatched.
C2_Witness ==
  \E n \in DOMAIN dispatched :
    /\ n >= 3
    /\ waitPos[dispatched[n].item] >= 2
    /\ {kind[dispatched[m].item] : m \in 1..n} = Kinds

\* C3: the step that handles the termination of the process rejects every
\* waiting item with the engine-died failure and leaves the queue empty and
\* idle; an item so rejected is never dispatched.
C3_CrashFlush ==
  /\ [][lastStep' = "closed" =>
          /\ queue' = <<>>
          /\ ~processing'
          /\ \A i \in Range(queue) : outcome'[i] = "died"]_vars
  /\ [](\A i \in Items : outcome[i] = "died" => i \notin DispatchedItems)

\* The process has just terminated with two items waiting.
C3_Witness ==
  /\ lastStep = "closed"
  /\ Cardinality({i \in Items : outcome[i] = "died"}) >= 2

\* C4: the step that handles the termination of the process rejects the
\* in-flight item with the engine-died failure.
C4_CrashRejectsInFlight ==
  [][lastStep' = "closed" => \A i \in InFlight : outcome'[i] = "died"]_vars

\* C5: an item is only ever written to the process that was current when it
\* was submitted; nothing submitted before a termination reaches the next process.
C5_FreshStart ==
  \A n \in DOMAIN dispatched : submitEpoch[dispatched[n].item] = dispatched[n].pid

\* After a termination that flushed an item, an item submitted to the
\* restarted process has been dispatched to it and has completed successfully.
C5_Witness ==
  \E i, j \in Items :
    /\ outcome[i] = "died"
    /\ submitEpoch[j] >= 2
    /\ j \in WrittenTo(submitEpoch[j])
    /\ outcome[j] = "resolved"

C7_CloseIsTerminal == [][closeCalled => spawns' = spawns]_vars

\* C8: ready only with a live process that has acknowledged the handshake;
\* every spawn leaves ready false; item commands are only written to a process
\* that had acknowledged the handshake.
C8_HandshakeGate ==
  /\ [](ready => stockfish # 0 /\ acked)
  /\ [][spawns' # spawns => ~ready']_vars
  /\ [](\A n \in DOMAIN dispatched : dispatched[n].acked)

\* An item has been written to a restarted process after its acknowledgement.
C8_Witness ==
  /\ dispatched # <<>>
  /\ LastDispatched.pid >= 2
  /\ LastDispatched.acked

\* C9: a submit while the engine is not ready rejects the new item in the same
\* step with the not-ready failure, leaves nothing in the queue and writes
\* nothing; such an item is never queued or dispatched later.
C9_SubmitNotReady ==
  /\ [][(lastStep' = "submit" /\ ~(stockfish # 0 /\ ready)) =>
          /\ outcome'[submitted'] = "notReady"
          /\ queue' = <<>>
          /\ dispatched' = dispatched]_vars
  /\ [](\A i \in Items : outcome[i] = "notReady" =>
          i \notin Range(queue) /\ i \notin DispatchedItems)

\* Item i was rejected before the first acknowledgement (the process of its
\* epoch later took item j), and item k was rejected between that process's
\* termination and the next acknowledgement.
C9_Witness ==
  \E i, j, k \in Items :
    /\ i < j /\ j < k
    /\ outcome[i] = "notReady"
    /\ j \in WrittenTo(submitEpoch[i])
    /\ submitEpoch[k] = submitEpoch[i]
    /\ outcome[k] = "notReady"

\* The step of C10: the step in which an item's timer fires settles that item
\* (with the timeout failure for getBestMove), and either dispatches the head
\* of the queue or, with nothing waiting, leaves the queue idle.
C10_TimeoutStep ==
  [][lastStep' = "timeout" =>
          /\ outcome'[Head(timers)] # "pending"
          /\ (kind[Head(timers)] = "best" => outcome'[Head(timers)] = "timeout")
          /\ IF queue = <<>>
             THEN ~processing' /\ dispatched' = dispatched
             ELSE /\ processing'
                  /\ queue' = Tail(queue)
                  /\ dispatched' = Append(dispatched, LastDispatched')
                  /\ LastDispatched'.item = Head(queue)]_vars

\* C10: a timeout releases the queue. The timer step is as C10_TimeoutStep
\* says; an unsettled item either waits or has its timer armed; and whenever a
\* timer is armed or an item waits, a state follows in which no timer is armed
\* and no item waits, so a stuck search blocks nothing forever.
C10_TimeoutReleases ==
  /\ C10_TimeoutStep
  /\ [](\A i \in Items : outcome[i] = "pending" => i \in Range(timers) \/ i \in Range(queue))
  /\ (timers # <<>> \/ queue # <<>>) ~> (timers = <<>> /\ queue = <<>>)

\* A getBestMove item whose search produced no terminal line has just timed
\* out on a process that never terminated, and the item that waited behind it
\* was dispatched in that step and is in flight.
C10_Witness ==
  /\ lastStep = "timeout"
  /\ spawns = 1
  /\ kind[1] = "best"
  /\ outcome[1] = "timeout"
  /\ searches = <<1, 2>>
  /\ LastDispatched.item = 2
  /\ InFlight = {2}

\* C11: the engine process never has more than one search whose terminal line
\* it has not yet emitted.
C11_OnePendingSearch == Len(searches) <= 1

\* C12: every call is eventually resolved or rejected. A call is never lost
\* (while unsettled its item waits in the queue or has its timer armed), and
\* whenever some call is unsettled a state follows in which none is.
C12_EverySettles ==
  /\ [](\A i \in Items : outcome[i] = "pending" => i \in Range(queue) \/ i \in Range(timers))
  /\ (\E i \in Items : outcome[i] = "pending") ~> (\A i \in Items : outcome[i] # "pending")

\* The process terminated with item 1 in flight and item 2 waiting; item 2 was
\* rejected by the flush and item 1 has now been settled by its timer.
C12_Witness ==
  /\ lastStep = "timeout"
  /\ 1 \in WrittenTo(1)
  /\ spawns >= 2
  /\ outcome[1] \in {"timeout", "neutral"}
  /\ outcome[2] = "died"

\* C15: evaluatePosition and getTopMoves are never failed with the not-ready
\* or the process-died error.
C15_UnavailableRecovered ==
  \A i \in Items : kind[i] \in {"eval", "top"} => outcome[i] \notin {"notReady", "died"}

\* C18: for every rating at or above the native floor (1350), ratings above
\* 3200 included, the configuration has randomMoveProbability 0 and does not
\* use random weakening.
C18_NativeHasNoRandomness ==
  elo >= NativeFloor => config.randomMoveProbability = 0 /\ ~config.useRandomWeakening

\* A rating above 3200: clamped to 3200, native, probability 0.
C18_Witness ==
  /\ elo > MaxElo
  /\ config.uciElo = MaxElo
  /\ config.uciLimitStrength
  /\ config.randomMoveProbability = 0

\* C19: for ratings below the floor randomMoveProbability lies strictly between
\* 0 and 1 and above 0.05, it is 0.70 at rating 500, and over 500..1349 it is
\* strictly smaller at the next higher rating.
C19_ProbabilityDecreases ==
  /\ [](elo < NativeFloor =>
          /\ 0 < config.randomMoveProbability
          /\ config.randomMoveProbability < ProbabilityUnit
          /\ 20 * config.randomMoveProbability > ProbabilityUnit)
  /\ [](elo = MinElo => 10 * config.randomMoveProbability = 7 * ProbabilityUnit)
  /\ [][elo >= MinElo /\ elo' > elo /\ elo' < NativeFloor =>
          config'.randomMoveProbability < config.randomMoveProbability]_vars

\* The last rating below the floor: 4315/85000, a little above 0.05.
C19_Witness ==
  /\ elo = NativeFloor - 1
  /\ config.useRandomWeakening
  /\ config.randomMoveProbability = 4315

\* C20 as stated: up to the floor, 1350 included, native limiting is off, the
\* search is the shallow one with the short budget and the probability is
\* positive; native limiting is used only strictly above the floor.
C20_FloorIsWeakened ==
  /\ elo <= NativeFloor =>
       /\ ~config.uciLimitStrength
       /\ config.depth = 4
       /\ config.moveTime = 200
       /\ config.randomMoveProbability > 0
  /\ config.uciLimitStrength => elo > NativeFloor

\* C20, amended: strictly below the floor native limiting is off, the search
\* is the shallow one with the short budget and the probability is positive;
\* at the floor (1350) and above it native limiting is on.
C20_BelowFloorIsWeakened ==
  /\ elo < NativeFloor =>
       /\ ~config.uciLimitStrength
       /\ config.depth = 4
       /\ config.moveTime = 200
       /\ config.randomMoveProbability > 0
  /\ elo >= NativeFloor => config.uciLimitStrength /\ config.depth = 0

\* The floor itself: native limiting at 1350, no randomness.
C20_Witness ==
  /\ elo = NativeFloor
  /\ config.uciLimitStrength
  /\ config.uciElo = NativeFloor
  /\ ~config.useRandomWeakening

\* C16: whenever an evaluatePosition search runs, the engine's strength limit
\* is off and its skill is full, whatever was written to the process before.
C16_EvaluateFullStrength ==
  go.kind = "eval" => ~options.limitStrength /\ options.skill = 20

\* A coordinate move: origin square, destination square, optional promotion piece.
IsCoordinateMove(m) ==
  /\ Len(m) \in {4, 5}
  /\ m[1] \in Files /\ m[2] \in Ranks /\ m[3] \in Files /\ m[4] \in Ranks
  /\ Len(m) = 5 => m[5] \in Promotions

\* C13: getBestMove resolves only with a coordinate move of four or five
\* characters; it rejects on timeout, when the engine is unavailable, and when
\* the terminal chunk holds no parsable move, and resolves when it holds one.
C13_BestMoveOrReject ==
  call.kind = "best" =>
    /\ call.phase = "resolved" => IsCoordinateMove(call.value.move)
    /\ call.via \in {"timeout", "command", "processQueue", "close"} => call.phase = "rejected"
    /\ call.via = "data" => (call.phase = "resolved" <=> call.terminalMove = "yes")

\* 'bestmove (none)' reached the handler and the call was rejected.
C13_Witness ==
  /\ call.kind = "best"
  /\ call.via = "data"
  /\ call.terminalMove = "no"
  /\ call.phase = "rejected"
  /\ call.error = "No best move found"

\* C14: an evaluatePosition call settled by its timer is resolved with
\* evaluation 0, empty best move and no mate, whatever scores came before.
C14_EvaluateTimeoutNeutral ==
  call.kind = "eval" /\ call.via = "timeout" =>
    /\ call.phase = "resolved"
    /\ call.value.evaluation = 0
    /\ call.value.move = <<>>
    /\ call.value.mate = <<>>

\* The timer fired after a mate score had been read.
C14_Witness ==
  /\ call.kind = "eval"
  /\ call.via = "timeout"
  /\ call.phase = "resolved"
  /\ call.evaluation # 0
  /\ call.mate # <<>>

\* C17: a getTopMoves call resolved by the terminal line returns one candidate
\* for each rank the engine gave a line with rank, score and move, in ascending
\* rank order, each being the candidate of the last such line of its rank.
C17_TopMovesShape ==
  call.kind = "top" /\ call.via = "data" =>
    LET R == {r \in DOMAIN call.scored : call.scored[r] # <<>>}
        list == call.value.list
    IN /\ call.phase = "resolved"
       /\ Len(list) = Cardinality(R)
       /\ \A r \in R : list[Cardinality({q \in R : q <= r})] = call.scored[r][1]

\* Two ranks, one of them scored more than once, and an incomplete line between.
C17_Witness ==
  /\ call.kind = "top"
  /\ call.via = "data"
  /\ Len(call.value.list) = 2
  /\ call.overwritten
  /\ call.incomplete

\* C21: the configuration of a rating is that of the rating clamped to
\* 500..3200: below 500 it is the configuration of 500, above 3200 that of
\* 3200, and the native target rating is the clamped rating itself.
C21_RatingClamp ==
  /\ elo < MinElo => config = getEngineConfig(MinElo)
  /\ elo > MaxElo => config = getEngineConfig(MaxElo) /\ config.uciElo = MaxElo
  /\ (elo >= MinElo /\ elo <= MaxElo /\ config.uciLimitStrength) => config.uciElo = elo

\* Rating 499: the configuration of 500, probability 0.70.
C21_Witness ==
  /\ elo = MinElo - 1
  /\ config.useRandomWeakening
  /\ 10 * config.randomMoveProbability = 7 * ProbabilityUnit

\* The call of getBestMove took the branch that needs no engine: weakening
\* applies and the position has one legal move, or several and the roll fell
\* below randomMoveProbability.
Bypasses(c) ==
  /\ c.request.weakening
  /\ c.request.legal = 1 \/ (c.request.legal >= 2 /\ c.request.below)

C23_NoLegalMoveFails ==
  (call.kind = "best" /\ call.request.legal = 0) => call.phase # "resolved"

\* C24: the label of every classified move follows from its delta d (kept in
\* hundredths of a pawn): blunder iff d < -3.0, mistake iff -3.0 <= d < -1.5,
\* inaccuracy iff -1.5 <= d < -0.5, brilliant iff d > 0.5, good otherwise; so
\* -3.0 is a mistake, -1.6 a mistake, -0.4 good and 0.6 brilliant.
C24_Thresholds ==
  analysis.last.index > 0 =>
    LET d == analysis.last.evalDiff
        label == analysis.last.classification
        below(limit) == d.cp < limit \/ (d.cp = limit /\ d.err < 0)
        above(limit) == d.cp > limit \/ (d.cp = limit /\ d.err > 0)
    IN /\ label \in {"blunder", "mistake", "inaccuracy", "brilliant", "good"}
       /\ label = "blunder" <=> below(-300)
       /\ label = "mistake" <=> (~below(-300) /\ below(-150))
       /\ label = "inaccuracy" <=> (~below(-150) /\ below(-50))
       /\ label = "brilliant" <=> above(50)
       /\ label = "good" <=> (~below(-50) /\ ~above(50))
       /\ (d.cp = -300 /\ d.err = 0) => label = "mistake"
       /\ d.cp = -160 => label = "mistake"
       /\ d.cp = -40 => label = "good"
       /\ d.cp = 60 => label = "brilliant"

\* A move whose delta is exactly -3.0 was classified, as a mistake.
C24_Witness ==
  /\ analysis.last.index > 0
  /\ analysis.last.evalDiff = [cp |-> -300, err |-> 0]
  /\ analysis.last.classification = "mistake"

\* C25 as stated: the first move of an analysed game is classified "good"
\* whatever the evaluations of the start position and of the position after
\* the move are.
C25_FirstMoveGood ==
  analysis.last.index = 1 => analysis.last.classification = "good"

\* C25, amended: the first move is classified like every other move, its
\* reference being the evaluation of the start position; it is "good" exactly
\* when its delta lies between -0.5 and 0.5, both included.
C25_FirstMoveByStartReference ==
  analysis.last.index = 1 =>
    LET d == analysis.last.evalDiff
    IN /\ analysis.last.turn = "w"
       /\ analysis.last.bestMoveEval = analysis.reference.evaluation
       /\ d.cp = analysis.last.evaluation - analysis.reference.evaluation
       /\ analysis.last.classification = "good" <=>
            /\ d.cp >= -50 /\ (d.cp = -50 => d.err >= 0)
            /\ d.cp <= 50 /\ (d.cp = 50 => d.err <= 0)

\* The first move was classified a blunder against the start position's own
\* evaluation.
C25_Witness ==
  /\ analysis.last.index = 1
  /\ analysis.used.kind = "own"
  /\ analysis.reference.evaluation = 0
  /\ analysis.last.evaluation = -310
  /\ analysis.last.classification = "blunder"

\* C26: the delta of a move is the evaluation after it minus the reference
\* when White moved and the negation of that when Black moved; the two
\* colours get opposite deltas for the same pair of evaluations, and the
\* mirrored pair played by the other colour gets the same label.
C26_MoverPerspectiveDelta ==
  analysis.last.index > 0 =>
    LET prior == analysis.reference
        after == analysis.prevEval
        d == analysis.last.evalDiff
        r == analysis.rounding
        asWhite == evalDiff("w", prior, after, IF analysis.last.turn = "w" THEN r ELSE -r)
        asBlack == evalDiff("b", prior, after, IF analysis.last.turn = "b" THEN r ELSE -r)
        otherTurn == IF analysis.last.turn = "w" THEN "b" ELSE "w"
    IN /\ analysis.last.turn = "w" => d.cp = after.evaluation - prior.evaluation
       /\ analysis.last.turn = "b" => d.cp = -(after.evaluation - prior.evaluation)
       /\ d = IF analysis.last.turn = "w" THEN asWhite ELSE asBlack
       /\ asWhite.cp = -asBlack.cp /\ asWhite.err = -asBlack.err
       /\ classify(evalDiff(otherTurn, negated(prior), negated(after), r))
            = analysis.last.classification

\* Black made a move after which White stands better by more than three pawns,
\* and it was classified a blunder.
C26_Witness ==
  /\ analysis.last.index > 0
  /\ analysis.last.turn = "b"
  /\ analysis.last.evaluation - analysis.reference.evaluation > 300
  /\ analysis.last.evalDiff.cp < -300
  /\ analysis.last.classification = "blunder"

\* C27: every evaluation the classifier keeps as a reference, score and mate
\* distance, is the one the engine holds of the searched position seen from
\* White.
C27_WhitePerspective ==
  (analysis.phase \in {"loop", "done"} /\ analysis.used.kind \in {"own", "stale"}) =>
    /\ analysis.prevEval.evaluation = analysis.used.searched.verdict.evaluation
    /\ analysis.prevEval.mate = analysis.used.searched.verdict.mate

\* C28: a mate distance returned by evaluatePosition comes with evaluation
\* +100 when it is positive and -100 otherwise (kept here as 10000 and -10000).
C28_MateSaturates ==
  (call.kind = "eval" /\ call.phase = "resolved" /\ call.value.mate # <<>>) =>
    call.value.evaluation = mateEvaluation(call.value.mate[1])

\* C29: an item is completed by a terminal line only when that line ends its
\* own search: no item stands completed by the engine's output while the
\* search started by its own commands is still unfinished.
C29_OwnTerminalLine ==
  \A i \in Items : outcome[i] \in {"resolved", "noMove"} => i \notin Range(searches)

\* C30: a terminal line that arrives while no data handler is registered
\* completes nobody, dispatches nothing, and leaves the queue, the processing
\* flag and the readiness flag as they were.
C30_LateOutputDiscarded ==
  [][(lastStep' = "bestmove" /\ listeners = <<>>) =>
       UNCHANGED <<outcome, dispatched, queue, processing, ready, timers, listeners, stockfish>>]_vars

\* Item 1 timed out with nothing waiting; the terminal line of its search came
\* afterwards and changed nothing.
C30_Witness ==
  /\ lastStep = "bestmove"
  /\ submitted = 1
  /\ outcome[1] \in {"timeout", "neutral"}
  /\ searches = <<>>
  /\ queue = <<>>
  /\ ~processing
  /\ ready

\* C31: the step of a timeout leaves the engine process and the readiness
\* flag as they were, arms no restart, and rejects no item that was waiting
\* in the queue.
C31_TimeoutIsNoCrash ==
  [][lastStep' = "timeout" =>
       /\ UNCHANGED <<stockfish, ready, restartTimers, spawns, killed>>
       /\ \A i \in Range(queue) : outcome'[i] = "pending"]_vars

\* An item timed out while the engine was alive and ready, and the item that
\* waited behind it was dispatched to the same process.
C31_Witness ==
  /\ lastStep = "timeout"
  /\ stockfish # 0
  /\ ready
  /\ restartTimers = 0
  /\ submitted >= 2
  /\ outcome[1] \in {"timeout", "neutral"}
  /\ outcome[2] = "pending"
  /\ 2 \in Range(timers)

\* C32: a call completed by a terminal line has its timer cancelled and its
\* handler removed, is settled, and has marked the queue idle (called
\* finishProcessing) exactly once.
C32_TerminalOnce ==
  call.via = "data" =>
    /\ call.phase \in {"resolved", "rejected"}
    /\ ~call.timer
    /\ ~call.listening
    /\ call.finishCalls = 1

C34_PreferredLine ==
  (call.kind = "eval" /\ call.via = "data" /\ call.preferred # <<>>) =>
    call.value.evaluation = call.preferred[1]

\* C35: every armed item timer belongs to an item whose commands were written
\* to the process that is alive; once a process has terminated, no timer of
\* an item it was working on is left to fire.
C35_NoTimerOutlivesCrash ==
  \A i \in Range(timers) : stockfish # 0 /\ i \in WrittenTo(stockfish)

\* C36: a process is spawned only by the restart timer, while no process is
\* alive, and that timer was armed by the termination of the process before;
\* the step of a termination arms exactly one restart timer; so no restart
\* timer is armed beside a live process, and never two of them.
C36_OneProcess ==
  /\ [][spawns' # spawns =>
          /\ lastStep' = "restart"
          /\ stockfish = 0
          /\ restartTimers = 1
          /\ restartTimers' = 0
          /\ spawns' = spawns + 1
          /\ stockfish' = spawns']_vars
  /\ [][lastStep' = "closed" =>
          stockfish # 0 /\ stockfish' = 0 /\ restartTimers' = restartTimers + 1]_vars
  /\ [](restartTimers <= 1 /\ (stockfish # 0 => restartTimers = 0 /\ stockfish = spawns))

\* The restart timer has just spawned the second process, after an item timed
\* out on the first and the first terminated.
C36_Witness ==
  /\ lastStep = "restart"
  /\ spawns = 2
  /\ stockfish = 2
  /\ restartTimers = 0
  /\ \E i \in Items : outcome[i] \in {"timeout", "neutral"}

\* C37: whenever the processing flag is false the queue is empty: no item
\* waits while nothing is in flight.
C37_IdleImpliesEmpty == ~processing => queue = <<>>

\* An item that waited behind another was dispatched and completed by its
\* terminal line, after which nothing is in flight and nothing waits.
C37_Witness ==
  /\ lastStep = "bestmove"
  /\ ~processing
  /\ queue = <<>>
  /\ \E i \in Items : waitPos[i] >= 2 /\ outcome[i] = "resolved"

\* C38: whenever the processing flag is true the process handle is set and
\* the supervisor is ready; the flag is set only in a step that starts and
\* ends with the supervisor ready, and every step that clears readiness
\* leaves the flag cleared.
C38_BusyImpliesReady ==
  /\ [](processing => stockfish # 0 /\ ready)
  /\ [][(~processing /\ processing') => (stockfish # 0 /\ ready /\ stockfish' = stockfish /\ ready')]_vars
  /\ [][(ready /\ ~ready') => ~processing']_vars

\* An item submitted to the restarted, ready process is in flight on it.
C38_Witness ==
  /\ lastStep = "submit"
  /\ processing
  /\ stockfish = 2
  /\ ready
  /\ InFlight # {}
  /\ LastDispatched.pid = 2

====
